---- MODULE Spec2Model ----
(***************************************************************************)
(* Model of "Cursive Font Writing/export_svg_glyphs.py": the pipeline that *)
(* turns one glyph's recorded pen commands into SVG path commands          *)
(* (segment into contours, keep the first half of each contour, reverse    *)
(* it, replay it through a flipping transform with close-path detection).  *)
(*                                                                         *)
(* A command is the pair (operator, operands) the recording pen stores,    *)
(* written here as a record [op, operands].  A point is a pair <<x, y>>.   *)
(* Coordinates are counted in HALF font units, so that the tolerance of    *)
(* 0.5 units of _points_close is the integer 1 and points that differ by   *)
(* half a unit exist: u(n) is n font units.  Python's None is the empty    *)
(* tuple.                                                                  *)
(***************************************************************************)
EXTENDS Integers, Sequences, FiniteSets, TLC

VARIABLES
    stream,           \* recording_pen.value: the glyph's command stream
    ascent,           \* the font's ascent, in half units
    pc,               \* position in _glyph_to_svg_commands / export_glyphs
    i,                \* index of the next command of the segmenting loop
    current_contour,  \* the segmenting loop's buffer
    contours,         \* the processed (split, reversed) contours
    segmented,        \* every buffer handed to _split_contour_at_midpoint, in order
    processed_value,  \* the flattened processed contours
    k,                \* index of the next command of the emitting loop
    contour_start,    \* emitter tracking state
    last_point,
    qcurve_closed,
    svg_pen,          \* the commands the transform pen has passed to the SVG pen
    path_data,        \* svg_pen.getCommands(), one entry per SVG command
    file,             \* what export_glyphs did with the glyph
    contour,          \* argument of a direct call of the splitter / reverser
    result            \* the values returned by those direct calls, in order

vars == <<stream, ascent, pc, i, current_contour, contours, segmented,
          processed_value, k, contour_start, last_point, qcurve_closed,
          svg_pen, path_data, file, contour, result>>

pipelineVars == <<stream, ascent, pc, i, current_contour, contours, segmented,
                  processed_value, k, contour_start, last_point, qcurve_closed,
                  svg_pen, path_data, file>>

-----------------------------------------------------------------------------
(* Values *)

None == <<>>

u(n) == 2 * n

Abs(n) == IF n < 0 THEN -n ELSE n

Cmd(op, operands) == [op |-> op, operands |-> operands]

MoveTo(p) == Cmd("moveTo", <<p>>)
LineTo(p) == Cmd("lineTo", <<p>>)
CurveTo(c1, c2, end) == Cmd("curveTo", <<c1, c2, end>>)
QCurveTo(pts) == Cmd("qCurveTo", pts)
ClosePath == Cmd("closePath", <<>>)
EndPath == Cmd("endPath", <<>>)
\* Any further operator of the pen protocol; it carries one point.
Other(p) == Cmd("other", <<p>>)

\* The IndexError that points[-(i+2)] raises in _reverse_contour_manually.
IndexError == <<Cmd("IndexError", <<>>)>>

RECURSIVE Flatten(_)
Flatten(cs) ==
    IF cs = <<>> THEN <<>> ELSE Flatten(SubSeq(cs, 1, Len(cs) - 1)) \o cs[Len(cs)]

Max(S) == CHOOSE m \in S : \A n \in S : n <= m

-----------------------------------------------------------------------------
(* _points_close, _get_last_point *)

tolerance == 1

\* Mutant: the tolerance taken as a distance instead of per axis.
_points_close_by_distance(p1, p2) ==
    (p1[1] - p2[1]) * (p1[1] - p2[1]) + (p1[2] - p2[2]) * (p1[2] - p2[2])
        <= tolerance * tolerance

_points_close(p1, p2) ==
    /\ Abs(p1[1] - p2[1]) <= tolerance
    /\ Abs(p1[2] - p2[2]) <= tolerance

\* for point in reversed(operands): if point is not None: return point
LastNotNone(operands) ==
    LET idx == {j \in 1..Len(operands) : operands[j] # None}
    IN  IF idx = {} THEN None ELSE operands[Max(idx)]

_get_last_point(operator, operands) ==
    IF operands = <<>> THEN None
    ELSE IF operator = "qCurveTo" THEN LastNotNone(operands)
    ELSE operands[Len(operands)]

-----------------------------------------------------------------------------
(* _split_contour_at_midpoint *)

IsDrawingOp(c) == c.op \notin {"moveTo", "closePath", "endPath"}
IsMoveTo(c) == c.op = "moveTo"

drawing_ops(c) == SelectSeq(c, IsDrawingOp)

\* move_to: the last moveTo of the contour, as a list of zero or one command
move_to(c) ==
    LET moves == SelectSeq(c, IsMoveTo)
    IN  IF moves = <<>> THEN <<>> ELSE <<moves[Len(moves)]>>

\* Mutants: the midpoint one too far, and rounded up.
midpoint_one_more(ops) == Len(ops) \div 2 + 1
midpoint_rounded_up(ops) == (Len(ops) + 1) \div 2

midpoint(ops) == Len(ops) \div 2

first_half(ops) == SubSeq(ops, 1, midpoint(ops))

\* Mutant: the trailing closePath/endPath is put back after the first half.
split_keeping_close(c) ==
    IF Len(c) < 3 THEN c
    ELSE IF drawing_ops(c) = <<>> THEN c
    ELSE move_to(c) \o first_half(drawing_ops(c))
            \o (IF c[Len(c)].op \in {"closePath", "endPath"} THEN <<c[Len(c)]>> ELSE <<>>)

_split_contour_at_midpoint(c) ==
    IF Len(c) < 3 THEN c
    ELSE IF drawing_ops(c) = <<>> THEN c
    ELSE move_to(c) \o first_half(drawing_ops(c))

-----------------------------------------------------------------------------
(* _reverse_contour_manually *)

\* operations = contour[1:], less one trailing closePath/endPath
operations(c) ==
    LET ops == SubSeq(c, 2, Len(c))
    IN  IF ops # <<>> /\ ops[Len(ops)].op \in {"closePath", "endPath"}
        THEN SubSeq(ops, 1, Len(ops) - 1)
        ELSE ops

\* The point one operation adds to the list of points (none for other operators,
\* and none for a qCurveTo without any point).
PointOf(c) ==
    IF c.op = "lineTo" THEN <<c.operands[1]>>
    ELSE IF c.op = "curveTo" THEN <<c.operands[Len(c.operands)]>>
    ELSE IF c.op = "qCurveTo" /\ LastNotNone(c.operands) # None
         THEN <<LastNotNone(c.operands)>>
    ELSE <<>>

RECURSIVE PointsOf(_)
PointsOf(ops) ==
    IF ops = <<>> THEN <<>>
    ELSE PointsOf(SubSeq(ops, 1, Len(ops) - 1)) \o PointOf(ops[Len(ops)])

\* points = [move_to_point] + the point of every operation
points(c) == <<c[1].operands[1]>> \o PointsOf(operations(c))

Reverse(s) == [j \in 1..Len(s) |-> s[Len(s) + 1 - j]]

NotNone(p) == p # None

\* Mutant: a reversed line or curve keeps its own end point.
ReversedOp_keeping_end(c, prev_point) ==
    IF c.op = "lineTo" THEN <<LineTo(c.operands[1])>>
    ELSE IF c.op = "curveTo"
         THEN <<CurveTo(c.operands[2], c.operands[1], c.operands[3])>>
    ELSE IF c.op = "qCurveTo"
         THEN <<QCurveTo(Reverse(SelectSeq(c.operands, NotNone)) \o <<prev_point>>)>>
    ELSE <<>>

\* What one operation appends to the result, given the point before it.
ReversedOp(c, prev_point) ==
    IF c.op = "lineTo" THEN <<LineTo(prev_point)>>
    ELSE IF c.op = "curveTo"
         THEN <<CurveTo(c.operands[2], c.operands[1], prev_point)>>
    ELSE IF c.op = "qCurveTo"
         THEN <<QCurveTo(Reverse(SelectSeq(c.operands, NotNone)) \o <<prev_point>>)>>
    ELSE <<>>

\* The loop over enumerate(reversed(operations)), from index n (0-based) on;
\* prev_point = points[-(n+2)].
RECURSIVE ReversedOps(_, _, _)
ReversedOps(ops, pts, n) ==
    IF n >= Len(ops) THEN <<>>
    ELSE ReversedOp(ops[Len(ops) - n], pts[Len(pts) - n - 1])
            \o ReversedOps(ops, pts, n + 1)

_reverse_contour_manually(c) ==
    IF Len(c) < 2 THEN c
    ELSE IF c[1].op # "moveTo" THEN c
    ELSE IF operations(c) = <<>> THEN c
    ELSE IF Len(points(c)) < Len(operations(c)) + 1 THEN IndexError
    ELSE <<MoveTo(points(c)[Len(points(c))])>>
            \o ReversedOps(operations(c), points(c), 0)

-----------------------------------------------------------------------------
(* The transform pen: TransformPen(svg_pen, (1, 0, 0, -1, 0, ascent)) *)

\* Mutant: the translation by the ascent without the flip.
transformation_without_flip(asc) == <<1, 0, 0, 1, 0, asc>>

transformation(asc) == <<1, 0, 0, -1, 0, asc>>

\* An affine transformation (xx, xy, yx, yy, dx, dy) applied to a point.
TransformPoint(t, p) ==
    <<t[1] * p[1] + t[3] * p[2] + t[5], t[2] * p[1] + t[4] * p[2] + t[6]>>

\* The command the transform pen passes on: every point transformed, an absent
\* operand kept absent.
Transformed(c, asc) ==
    Cmd(c.op, [j \in 1..Len(c.operands) |->
                 IF c.operands[j] = None THEN None
                 ELSE TransformPoint(transformation(asc), c.operands[j])])

\* svg_pen.getCommands(): one entry per SVG path command (M, L, C, Q, Z);
\* the text of the coordinates is not modelled.  The path string is empty
\* exactly when this sequence is.
SvgLetter(c) ==
    IF c.op = "moveTo" THEN "M"
    ELSE IF c.op = "lineTo" THEN "L"
    ELSE IF c.op = "curveTo" THEN "C"
    ELSE IF c.op = "qCurveTo" THEN "Q"
    ELSE IF c.op = "closePath" THEN "Z"
    ELSE c.op

getCommands(pen) == [j \in 1..Len(pen) |-> SvgLetter(pen[j])]

-----------------------------------------------------------------------------
(* _glyph_to_svg_commands: the segmenting loop (lines 261-285) *)

\* split_contour = _split_contour_at_midpoint(current_contour)
\* reversed_contour = _reverse_contour_manually(split_contour)
reversed_contour(c) == _reverse_contour_manually(_split_contour_at_midpoint(c))

\* Mutant: the new buffer starts empty, without its moveTo.
started_empty(c) == <<>>

\* current_contour = [(operator, operands)]
started(c) == <<c>>

\* for operator, operands in recording_pen.value: if operator == "moveTo"
SegmentMoveTo ==
    /\ pc = "segment"
    /\ i <= Len(stream)
    /\ stream[i].op = "moveTo"
    /\ IF current_contour # <<>>
       THEN /\ segmented' = Append(segmented, current_contour)
            /\ IF reversed_contour(current_contour) = IndexError
               THEN /\ pc' = "raised"
                    /\ UNCHANGED <<contours, current_contour, i>>
               ELSE /\ contours' = Append(contours, reversed_contour(current_contour))
                    /\ current_contour' = started(stream[i])
                    /\ i' = i + 1
                    /\ pc' = pc
       ELSE /\ current_contour' = started(stream[i])
            /\ i' = i + 1
            /\ UNCHANGED <<segmented, contours, pc>>
    /\ UNCHANGED <<stream, ascent, processed_value, k, contour_start, last_point,
                   qcurve_closed, svg_pen, path_data, file, contour, result>>

\* else: current_contour.append((operator, operands))
SegmentAppend ==
    /\ pc = "segment"
    /\ i <= Len(stream)
    /\ stream[i].op # "moveTo"
    /\ current_contour' = Append(current_contour, stream[i])
    /\ i' = i + 1
    /\ UNCHANGED <<stream, ascent, pc, contours, segmented, processed_value, k,
                   contour_start, last_point, qcurve_closed, svg_pen, path_data,
                   file, contour, result>>

\* End of the stream: flush the buffer, flatten the contours, set up the emitter.
SegmentEnd ==
    /\ pc = "segment"
    /\ i > Len(stream)
    /\ IF current_contour # <<>>
       THEN /\ segmented' = Append(segmented, current_contour)
            /\ IF reversed_contour(current_contour) = IndexError
               THEN /\ pc' = "raised"
                    /\ UNCHANGED <<contours, processed_value>>
               ELSE /\ contours' = Append(contours, reversed_contour(current_contour))
                    /\ processed_value' = Flatten(contours')
                    /\ pc' = "emit"
       ELSE /\ processed_value' = Flatten(contours)
            /\ pc' = "emit"
            /\ UNCHANGED <<segmented, contours>>
    /\ k' = 1
    /\ contour_start' = None
    /\ last_point' = None
    /\ qcurve_closed' = FALSE
    /\ svg_pen' = <<>>
    /\ UNCHANGED <<stream, ascent, i, current_contour, path_data, file, contour, result>>

-----------------------------------------------------------------------------
(* _glyph_to_svg_commands: the emitting loop (lines 296-333) *)

Emitting(ops) ==
    /\ pc = "emit"
    /\ k <= Len(processed_value)
    /\ processed_value[k].op \in ops
    /\ k' = k + 1
    /\ UNCHANGED <<stream, ascent, pc, i, current_contour, contours, segmented,
                   processed_value, path_data, file, contour, result>>

EmitMoveTo ==
    /\ Emitting({"moveTo"})
    /\ contour_start' = processed_value[k].operands[1]
    /\ last_point' = processed_value[k].operands[1]
    /\ qcurve_closed' = FALSE
    /\ svg_pen' = Append(svg_pen, Transformed(processed_value[k], ascent))

EmitLineOrCurve ==
    /\ Emitting({"lineTo", "curveTo"})
    /\ svg_pen' = Append(svg_pen, Transformed(processed_value[k], ascent))
    /\ LET maybe_point == _get_last_point(processed_value[k].op, processed_value[k].operands)
       IN  last_point' = IF maybe_point # None THEN maybe_point ELSE last_point
    /\ qcurve_closed' = FALSE
    /\ UNCHANGED contour_start

EmitQCurve ==
    /\ Emitting({"qCurveTo"})
    /\ svg_pen' = Append(svg_pen, Transformed(processed_value[k], ascent))
    /\ LET operands == processed_value[k].operands
           maybe_point == _get_last_point("qCurveTo", operands)
       IN  IF operands # <<>> /\ operands[Len(operands)] = None /\ contour_start # None
           THEN /\ last_point' = contour_start
                /\ qcurve_closed' = TRUE
           ELSE /\ last_point' = IF maybe_point # None THEN maybe_point ELSE last_point
                /\ qcurve_closed' = FALSE
    /\ UNCHANGED contour_start

\* if contour_start and last_point and (_points_close(...) or qcurve_closed)
closes(start, last, qclosed) ==
    /\ start # None
    /\ last # None
    /\ (_points_close(last, start) \/ qclosed)

EmitClosePath ==
    /\ Emitting({"closePath"})
    /\ svg_pen' = IF closes(contour_start, last_point, qcurve_closed)
                  THEN Append(svg_pen, ClosePath)
                  ELSE svg_pen
    /\ contour_start' = None
    /\ last_point' = None
    /\ qcurve_closed' = FALSE

EmitEndPath ==
    /\ Emitting({"endPath"})
    /\ contour_start' = None
    /\ last_point' = None
    /\ qcurve_closed' = FALSE
    /\ UNCHANGED svg_pen

\* else: getattr(transform_pen, operator)(*operands), passed on as it is
EmitOther ==
    /\ Emitting({"other"})
    /\ svg_pen' = Append(svg_pen, processed_value[k])
    /\ LET maybe_point == _get_last_point(processed_value[k].op, processed_value[k].operands)
       IN  last_point' = IF maybe_point # None THEN maybe_point ELSE last_point
    /\ qcurve_closed' = FALSE
    /\ UNCHANGED contour_start

\* return svg_pen.getCommands()
GetCommands ==
    /\ pc = "emit"
    /\ k > Len(processed_value)
    /\ path_data' = getCommands(svg_pen)
    /\ pc' = "returned"
    /\ UNCHANGED <<stream, ascent, i, current_contour, contours, segmented,
                   processed_value, k, contour_start, last_point, qcurve_closed,
                   svg_pen, file, contour, result>>

\* export_glyphs: skip the glyph when path_data is empty, else write its file
ExportGlyph ==
    /\ pc = "returned"
    /\ file' = IF path_data = <<>> THEN "skipped" ELSE "written"
    /\ pc' = "done"
    /\ UNCHANGED <<stream, ascent, i, current_contour, contours, segmented,
                   processed_value, k, contour_start, last_point, qcurve_closed,
                   svg_pen, path_data, contour, result>>

-----------------------------------------------------------------------------
(* Direct calls of the splitter and of the reverser *)

Split ==
    /\ pc = "split"
    /\ result = <<>>
    /\ result' = <<_split_contour_at_midpoint(contour)>>
    /\ UNCHANGED <<pipelineVars, contour>>

\* The reverser applied to the contour, then to what it returned.
ReverseAgain ==
    /\ pc = "reverse"
    /\ Len(result) < 2
    /\ result' = Append(result, _reverse_contour_manually(
                                   IF result = <<>> THEN contour ELSE result[Len(result)]))
    /\ UNCHANGED <<pipelineVars, contour>>

-----------------------------------------------------------------------------
(* Inputs *)

MaxStreamLen == 4
MaxProcessedLen == 3
MaxContourLen == 5

A == <<0, 0>>
B == <<1, 1>>
D == <<1, 0>>
F == <<6, 4>>

SeqsUpTo(S, n) == UNION {[1..m -> S] : m \in 0..n}

\* The commands of the streams the pipeline is run on.
StreamCommands ==
    {MoveTo(A), LineTo(B), LineTo(F), CurveTo(F, B, F), QCurveTo(<<F, None>>),
     QCurveTo(<<B, F>>), ClosePath, EndPath, Other(F)}

\* The end-to-end scenario: two lines forward, then the same two lines back.
Scenario ==
    <<MoveTo(<<u(0), u(0)>>), LineTo(<<u(50), u(0)>>), LineTo(<<u(100), u(50)>>),
      LineTo(<<u(50), u(0)>>), LineTo(<<u(0), u(0)>>), ClosePath>>

\* (stream, ascent) pairs
Inputs ==
    (SeqsUpTo(StreamCommands, MaxStreamLen) \X {u(4)}) \cup {<<Scenario, u(500)>>}

\* The commands of the processed lists the emitter is run on directly.
ProcessedCommands ==
    {MoveTo(A), MoveTo(F), LineTo(A), LineTo(B), LineTo(D), LineTo(F),
     CurveTo(F, D, B), QCurveTo(<<F, None>>), QCurveTo(<<F, D>>),
     ClosePath, EndPath, Other(B)}

FlipVector == <<MoveTo(<<u(200), u(300)>>)>>

ProcessedInputs ==
    (SeqsUpTo(ProcessedCommands, MaxProcessedLen) \X {u(4), u(7)})
        \cup {<<FlipVector, u(750)>>}

\* The commands of the contours the splitter and the reverser are called on.
ContourCommands ==
    {MoveTo(A), LineTo(B), LineTo(F), CurveTo(B, F, A), CurveTo(F, B, D),
     QCurveTo(<<B, None>>), QCurveTo(<<F, B>>), ClosePath, EndPath, Other(F)}

ContourInputs == SeqsUpTo(ContourCommands, MaxContourLen)

-----------------------------------------------------------------------------
(* Specifications *)

\* The emitter's tracking state before its loop (lines 292-294), and an empty pen.
EmitterReset ==
    /\ k = 1
    /\ contour_start = None
    /\ last_point = None
    /\ qcurve_closed = FALSE
    /\ svg_pen = <<>>
    /\ path_data = <<>>
    /\ file = "pending"

\* One glyph through the whole pipeline.
Init ==
    /\ \E in \in Inputs : stream = in[1] /\ ascent = in[2]
    /\ pc = "segment"
    /\ i = 1
    /\ current_contour = <<>>
    /\ contours = <<>>
    /\ segmented = <<>>
    /\ processed_value = <<>>
    /\ EmitterReset
    /\ contour = <<>>
    /\ result = <<>>

Emit ==
    \/ EmitMoveTo
    \/ EmitLineOrCurve
    \/ EmitQCurve
    \/ EmitClosePath
    \/ EmitEndPath
    \/ EmitOther

Next ==
    \/ SegmentMoveTo
    \/ SegmentAppend
    \/ SegmentEnd
    \/ Emit
    \/ GetCommands
    \/ ExportGlyph

Spec == Init /\ [][Next]_vars

\* The emitting loop on any processed command list.
InitEmit ==
    /\ \E in \in ProcessedInputs : processed_value = in[1] /\ ascent = in[2]
    /\ pc = "emit"
    /\ stream = <<>>
    /\ i = 1
    /\ current_contour = <<>>
    /\ contours = <<>>
    /\ segmented = <<>>
    /\ EmitterReset
    /\ contour = <<>>
    /\ result = <<>>

NextEmit ==
    \/ Emit
    \/ GetCommands
    \/ ExportGlyph

SpecEmit == InitEmit /\ [][NextEmit]_vars

Idle ==
    /\ stream = <<>>
    /\ ascent = 0
    /\ i = 1
    /\ current_contour = <<>>
    /\ contours = <<>>
    /\ segmented = <<>>
    /\ processed_value = <<>>
    /\ EmitterReset

\* _split_contour_at_midpoint called on any contour.
InitSplit ==
    /\ contour \in ContourInputs
    /\ result = <<>>
    /\ pc = "split"
    /\ Idle

NextSplit == Split

SpecSplit == InitSplit /\ [][NextSplit]_vars

\* _reverse_contour_manually called on any contour, and again on its result.
InitReverse ==
    /\ contour \in ContourInputs
    /\ result = <<>>
    /\ pc = "reverse"
    /\ Idle

NextReverse == ReverseAgain

SpecReverse == InitReverse /\ [][NextReverse]_vars

-----------------------------------------------------------------------------
(* Vocabulary of the properties *)

Ops(c) == {c[j].op : j \in 1..Len(c)}

HasDrawing(c) == \E j \in 1..Len(c) : c[j].op \notin {"moveTo", "closePath", "endPath"}

\* Every contour of the stream begins with a MoveTo and holds at most one
\* ClosePath/EndPath, at its end.
WellFormed(s) ==
    \A j \in 1..Len(s) :
        /\ j = 1 => s[j].op = "moveTo"
        /\ (s[j].op \in {"closePath", "endPath"} /\ j < Len(s)) => s[j + 1].op = "moveTo"

\* The number of the processed contour that holds position j of processed_value.
ContourAt(j) ==
    CHOOSE ci \in 1..Len(contours) :
        /\ Len(Flatten(SubSeq(contours, 1, ci - 1))) < j
        /\ j <= Len(Flatten(SubSeq(contours, 1, ci)))

Count(s, op) == Cardinality({j \in 1..Len(s) : s[j].op = op})

\* A MoveTo, then one or more LineTo/CurveTo/QCurveTo, then at most one
\* ClosePath/EndPath.
Reversible(c, kinds) ==
    /\ Len(c) >= 2
    /\ c[1].op = "moveTo"
    /\ c[2].op \in kinds
    /\ \A j \in 2..Len(c) :
          \/ c[j].op \in kinds
          \/ j = Len(c) /\ c[j].op \in {"closePath", "endPath"}

\* The drawing commands of such a contour.
Drawing(c) ==
    IF c[Len(c)].op \in {"closePath", "endPath"}
    THEN SubSeq(c, 2, Len(c) - 1)
    ELSE SubSeq(c, 2, Len(c))

Implicit(cmd) == cmd.op = "qCurveTo" /\ cmd.operands[Len(cmd.operands)] = None

\* The terminal on-curve point of a drawing command of a contour that starts at
\* `start`: its final operand, and the contour's start when that operand is absent.
Terminal(cmd, start) == IF Implicit(cmd) THEN start ELSE cmd.operands[Len(cmd.operands)]

\* The on-curve points p0..pn of a contour, as the sequence <<p0, ..., pn>>.
OnCurve(c) ==
    <<c[1].operands[1]>>
        \o [j \in 1..Len(Drawing(c)) |-> Terminal(Drawing(c)[j], c[1].operands[1])]

-----------------------------------------------------------------------------
(* C1: the end-to-end scenario *)

ScenarioDone == pc = "done" /\ stream = Scenario /\ ascent = u(500)

\* C1, as stated: the scenario's stream, run through the whole pipeline with
\* ascent 500, gives one move to (0,500) and one line to (50,500), and no close.
C1_TwoPointPath ==
    ScenarioDone =>
        svg_pen = <<MoveTo(<<u(0), u(500)>>), LineTo(<<u(50), u(500)>>)>>

\* C1, amended: the scenario gives a three-point open path: one move to
\* (100,450), a line to (50,500) and a line to (0,500), and no close; the glyph
\* is written.
C1_ThreePointPath ==
    ScenarioDone =>
        /\ svg_pen = <<MoveTo(<<u(100), u(450)>>), LineTo(<<u(50), u(500)>>),
                       LineTo(<<u(0), u(500)>>)>>
        /\ path_data = <<"M", "L", "L">>
        /\ file = "written"

C1_Witness == ScenarioDone /\ Len(svg_pen) = 3

-----------------------------------------------------------------------------
(* C2: close-path suppression *)

\* The emitter is about to handle a ClosePath inside a contour begun by a MoveTo.
AtClosePath ==
    /\ pc = "emit"
    /\ k <= Len(processed_value)
    /\ processed_value[k].op = "closePath"
    /\ contour_start # None

AfterImplicitQCurve == k > 1 /\ Implicit(processed_value[k - 1])

\* The distance between p and s is at most 0.5 units (squares, in half units).
WithinDistance(p, s) ==
    (p[1] - s[1]) * (p[1] - s[1]) + (p[2] - s[2]) * (p[2] - s[2]) <= 1

\* p and s differ by at most 0.5 units in x and by at most 0.5 units in y.
WithinPerAxis(p, s) == 2 * Abs(p[1] - s[1]) <= u(1) /\ 2 * Abs(p[2] - s[2]) <= u(1)

CloseEmitted == svg_pen' = Append(svg_pen, ClosePath)
CloseDropped == svg_pen' = svg_pen

-----------------------------------------------------------------------------
(* C3: reversing twice *)

\* C3: for a contour of a MoveTo and one or more LineTo/CurveTo, reversing twice
\* gives back the on-curve points p0..pn in their order and every command with
\* its operands: CurveTo(c1, c2, end) after p0 is again CurveTo(c1, c2, end)
\* after p0.
C3_ReverseTwice ==
    (Len(result) = 2 /\ Reversible(contour, {"lineTo", "curveTo"})
        /\ contour[Len(contour)].op \in {"lineTo", "curveTo"}) =>
        /\ Len(result[2]) = Len(contour)
        /\ Reversible(result[2], {"lineTo", "curveTo"})
        /\ OnCurve(result[2]) = OnCurve(contour)
        /\ \A j \in 1..Len(contour) :
              /\ result[2][j].op = contour[j].op
              /\ result[2][j].operands = contour[j].operands

C3_Witness ==
    /\ Len(result) = 2
    /\ contour = <<MoveTo(A), CurveTo(B, F, A), LineTo(F), CurveTo(F, B, D)>>
    /\ result[1] = <<MoveTo(D), CurveTo(B, F, F), LineTo(A), CurveTo(F, B, A)>>
    /\ result[2] = contour

-----------------------------------------------------------------------------
(* C4: segmentation round trip *)

\* C4: the buffers the segmenter completes, taken before splitting and reversal
\* and concatenated in order (with the buffer being filled), are the commands
\* read so far, and the whole stream once the loop has ended; every completed
\* buffer is non-empty and holds no MoveTo after its first command.
C4_SegmentationRoundTrip ==
    /\ pc = "segment" =>
          Flatten(segmented) \o current_contour = SubSeq(stream, 1, i - 1)
    /\ pc = "raised" => Flatten(segmented) = SubSeq(stream, 1, i - 1)
    /\ pc \in {"emit", "returned", "done"} => Flatten(segmented) = stream
    /\ \A ci \in 1..Len(segmented) :
          /\ segmented[ci] # <<>>
          /\ \A j \in 2..Len(segmented[ci]) : segmented[ci][j].op # "moveTo"

C4_Witness ==
    /\ pc = "done"
    /\ Len(stream) = 4
    /\ Len(segmented) = 2
    /\ segmented[1] # contours[1]
    /\ Flatten(segmented) = stream

-----------------------------------------------------------------------------
(* C5: degenerate glyphs *)

\* C5, as stated: a glyph whose outline is empty, or whose contours hold only a
\* MoveTo and at most a ClosePath/EndPath, gives an empty path string, and the
\* caller skips it.
C5_DegenerateIsSkipped ==
    (pc = "done" /\ WellFormed(stream) /\ ~HasDrawing(stream)) =>
        /\ path_data = <<>>
        /\ file = "skipped"

-----------------------------------------------------------------------------
(* C6: the coordinate flip *)

Flip(p, asc) == <<p[1], asc - p[2]>>

Flipped(c, asc) ==
    Cmd(c.op, [j \in 1..Len(c.operands) |->
                 IF c.operands[j] = None THEN None ELSE Flip(c.operands[j], asc)])

IsForwarded(c) == c.op \in {"moveTo", "lineTo", "curveTo", "qCurveTo"}

\* C6: the move, line, cubic and quadratic commands passed to the serializer are,
\* in order, those of the processed list read so far, each point (x, y) of each
\* replaced by (x, ascent - y); with ascent 750, (200, 300) becomes (200, 450).
C6_CoordinateFlip ==
    pc \in {"emit", "returned", "done"} =>
        LET read == SelectSeq(SubSeq(processed_value, 1, k - 1), IsForwarded)
            sent == SelectSeq(svg_pen, IsForwarded)
        IN  /\ Len(sent) = Len(read)
            /\ \A j \in 1..Len(read) : sent[j] = Flipped(read[j], ascent)
            /\ (ascent = u(750) /\ k > 1 /\ processed_value = FlipVector)
                  => svg_pen = <<MoveTo(<<u(200), u(450)>>)>>

C6_Witness ==
    /\ pc = "done"
    /\ ascent = u(750)
    /\ processed_value = FlipVector
    /\ svg_pen = <<MoveTo(<<u(200), u(450)>>)>>

-----------------------------------------------------------------------------
(* C7: the midpoint splitter *)

\* C7: a contour of at most 2 commands, or without drawing commands, is returned
\* unchanged; any other contour (one MoveTo, at its start) with n drawing commands
\* gives its MoveTo followed by its first n \div 2 drawing commands in their
\* order, without ClosePath or EndPath.
C7_SplitterResult ==
    result # <<>> =>
        LET r == result[1]
            d == SelectSeq(contour, IsDrawingOp)
            n == Len(d)
        IN  IF Len(contour) <= 2 \/ n = 0
            THEN r = contour
            ELSE (contour[1].op = "moveTo" /\ Count(contour, "moveTo") = 1) =>
                    /\ Len(r) = 1 + (n \div 2)
                    /\ r[1] = contour[1]
                    /\ \A j \in 1..(n \div 2) : r[j + 1] = d[j]
                    /\ Ops(r) \cap {"closePath", "endPath"} = {}

C7_Witness ==
    /\ pc = "split"
    /\ contour = <<MoveTo(A), LineTo(B), CurveTo(B, F, A), LineTo(F), ClosePath>>
    /\ result = <<<<MoveTo(A), LineTo(B)>>>>

-----------------------------------------------------------------------------
(* C8, C9: the reverser's points *)

AllKinds == {"lineTo", "curveTo", "qCurveTo"}

\* C8, as stated: for MoveTo(p0) and n >= 1 LineTo/CurveTo/QCurveTo commands with
\* terminal on-curve points p1..pn (and at most one ClosePath/EndPath after
\* them), the reverser gives MoveTo(pn) and exactly n drawing commands, the k-th
\* of the kind of the original command n-k+1 and ending at p(n-k).
C8_ReversedPointOrder ==
    (result # <<>> /\ Reversible(contour, AllKinds)) =>
        LET r == result[1]
            d == Drawing(contour)
            n == Len(d)
            p == OnCurve(contour)   \* p[j + 1] is pj
        IN  /\ Len(r) = n + 1
            /\ r[1] = MoveTo(p[n + 1])
            /\ \A j \in 1..n :
                  /\ r[j + 1].op = d[n - j + 1].op
                  /\ r[j + 1].operands[Len(r[j + 1].operands)] = p[n - j + 1]

\* C9, as stated: in the list of points the reverser rebuilds, a QCurveTo whose
\* trailing operand is absent stands for the contour's start point, as in the
\* emitter; so the reversed contour of one that ends with such a QCurveTo starts
\* at that start point.
C9_ImplicitPointIsStart ==
    (result # <<>> /\ Reversible(contour, AllKinds)) =>
        LET d == Drawing(contour)
            start == contour[1].operands[1]
        IN  /\ \A j \in 1..Len(d) : Implicit(d[j]) => points(contour)[j + 1] = start
            /\ Implicit(d[Len(d)]) => result[1][1] = MoveTo(start)

-----------------------------------------------------------------------------
(* C10: no close after drawing commands *)

IsMoveClose(c) == Len(c) = 2 /\ c[1].op = "moveTo" /\ c[2].op = "closePath"

\* C10: for a well-formed stream, the processed contour of a contour that holds
\* a drawing command holds no ClosePath; when the emitter reaches a ClosePath its
\* pending-implicit-close flag is false, and it emits a close only for a contour
\* that is exactly [MoveTo, ClosePath]; so the output holds as many closes as the
\* stream holds such contours.
C10_NoCloseAfterDrawing ==
    WellFormed(stream) =>
        /\ \A ci \in 1..Len(contours) :
              HasDrawing(segmented[ci]) => "closePath" \notin Ops(contours[ci])
        /\ (pc = "emit" /\ k <= Len(processed_value)
                /\ processed_value[k].op = "closePath") =>
              /\ ~qcurve_closed
              /\ closes(contour_start, last_point, qcurve_closed)
                    => IsMoveClose(segmented[ContourAt(k)])
        /\ pc \in {"returned", "done"} =>
              Count(svg_pen, "closePath")
                 = Cardinality({ci \in 1..Len(segmented) : IsMoveClose(segmented[ci])})

\* A closed contour of two lines came out as an open path of one line.
C10_Witness ==
    /\ pc = "done"
    /\ stream = <<MoveTo(A), LineTo(B), LineTo(F), ClosePath>>
    /\ svg_pen = <<Transformed(MoveTo(B), ascent), Transformed(LineTo(A), ascent)>>

====
